---- MODULE Spec2Model ----
(***************************************************************************)
(* Model of the Speaker-Kit chat backend: the AIxplainService agent client *)
(* (submit / poll / extract, services/agent.py) and the chat views that    *)
(* drive it (views.py).                                                    *)
(*                                                                         *)
(* The specifications share the variables:                                 *)
(*   SpecAgent    direct calls of the four agent operations against a      *)
(*                nondeterministic provider (SpecAgentLive: with the       *)
(*                running call scheduled fairly);                          *)
(*   SpecPair     the sync and the async form called on the same answers;  *)
(*   SpecExtract  _extract_content_from_result applied to bounded payloads;*)
(*   SpecChat     the send_message / get_conversation_messages handlers,   *)
(*                one request after another;                               *)
(*   SpecServer   the handlers and the conversation views run by two       *)
(*                threads at once, each agent call being one step.         *)
(***************************************************************************)
EXTENDS Integers, Sequences, FiniteSets, TLC

VARIABLES
    configured,     \* bool(self.api_key) and bool(self.agent_id)
    pc,             \* position of the agent operation: idle / submit / polling / returned
    op,             \* which operation is running
    caller,         \* who called it: "api" or a request slot
    session_id,     \* the session_id argument of the operation
    callback,       \* generate_response_async: a callback was passed
    posts,          \* POST .../run requests issued by this call
    post_body,      \* JSON body of the POST
    sub,            \* the submit response this call received
    request_id,     \* requestId taken from the submit response
    result,         \* value returned to the caller
    ppc,            \* position inside _poll_for_result: off / get / sleep / done / raised
    poll_session,   \* session_id argument of _poll_for_result
    attempt,        \* the loop counter of _poll_for_result
    gets,           \* GET .../result requests issued by this call
    sleeps,         \* time.sleep(5) calls made by this call
    clock,          \* seconds slept so far (lower bound of elapsed time)
    last_get,       \* clock value at the latest GET (-1: none yet)
    gap_ok,         \* every GET so far came at least 5 s after the previous one
    poll_failed,    \* some poll attempt got a non-200 status or an exception
    poll_odd,       \* some poll attempt got a 200 body that is no JSON object
    done_at,        \* attempt at which completed was observed (0: not yet)
    poll_payload,   \* the completed payload, once observed
    poll_result,    \* value returned by _poll_for_result
    cb_count,       \* number of callback invocations
    cb_result,      \* argument of the latest callback invocation
    ex_in,          \* SpecExtract: the payload under extraction
    ex_out,         \* SpecExtract: what _extract_content_from_result returned
    conversations,  \* the Conversation rows, by id
    messages,       \* the Message rows, in order of creation
    session,        \* the Django session of each client
    req,            \* the chat request being handled and its handler's locals
    requests,       \* number of chat requests received so far
    workers,        \* SpecServer: the request each worker thread handles
    last_token,     \* SpecServer: session id of the latest successful agent call
    init_count,     \* SpecServer: initialize calls that returned a session id,
                    \* for each conversation (Deleted once the row was deleted)
    script,         \* SpecPair: the provider's answers, the same for both calls
    sync_result     \* SpecPair: what generate_response_sync returned

agentVars == <<configured, pc, op, caller, session_id, callback, posts, post_body,
               sub, request_id, result>>
pollVars == <<ppc, poll_session, attempt, gets, sleeps, clock, last_get, gap_ok,
              poll_failed, poll_odd, done_at, poll_payload, poll_result>>
cbVars == <<cb_count, cb_result>>
extractVars == <<ex_in, ex_out>>
chatVars == <<conversations, messages, session, req, requests>>
serverVars == <<workers, last_token, init_count>>
pairVars == <<script, sync_result>>
vars == <<agentVars, pollVars, cbVars, extractVars, chatVars, serverVars, pairVars>>

(***************************************************************************)
(* Python / JSON values.  Every value is a tagged record so that values of  *)
(* different Python types can be compared.  A text is a sequence of tokens; *)
(* the token " " is whitespace.                                            *)
(***************************************************************************)
NONE == "None"                       \* Python None where an id is expected
PyNone == [t |-> "none"]             \* Python None / JSON null
JNull == PyNone
JStr(s) == [t |-> "str", s |-> s]
JBool(b) == [t |-> "bool", b |-> b]
JObj(f) == [t |-> "obj", f |-> f]
Raise(e) == [t |-> "raise", e |-> e]
EmptyStr == JStr(<<>>)
EmptyDict == JObj(<<>>)
Absent == [t |-> "absent"]           \* marks a key left out when building a dict

\* bool(v)
PyTruthy(v) ==
    CASE v.t = "str" -> v.s # <<>>
      [] v.t = "bool" -> v.b
      [] v.t = "obj" -> DOMAIN v.f # {}
      [] OTHER -> FALSE

\* truthiness of an id held as a plain string (None and '' are falsy)
Truthy(x) == x \notin {NONE, ""}

\* a or b, on ids
IdOr(a, b) == IF Truthy(a) THEN a ELSE b

\* a or b: a raised exception propagates, b is used only when a is falsy
PyOr(a, b) == IF a.t = "raise" THEN a ELSE IF PyTruthy(a) THEN a ELSE b

\* d.get(k, dflt): AttributeError when d is no dict
PyGet(d, k, dflt) ==
    IF d.t = "raise" THEN d
    ELSE IF d.t # "obj" THEN Raise("AttributeError")
    ELSE IF k \in DOMAIN d.f THEN d.f[k] ELSE dflt

IsSpace(c) == c = " "

RECURSIVE LStrip(_)
LStrip(s) == IF s # <<>> /\ IsSpace(Head(s)) THEN LStrip(Tail(s)) ELSE s

RECURSIVE RStrip(_)
RStrip(s) ==
    IF s # <<>> /\ IsSpace(s[Len(s)]) THEN RStrip(SubSeq(s, 1, Len(s) - 1)) ELSE s

\* str.strip()
Strip(s) == RStrip(LStrip(s))

PyStrip_unstripped(v) == IF v.t = "str" THEN v ELSE Raise("AttributeError")

\* v.strip(): AttributeError when v is no str
PyStrip(v) == IF v.t = "str" THEN JStr(Strip(v.s)) ELSE Raise("AttributeError")

\* str(v) of a dict: a rendering in braces
PyStrOf(v) == JStr(<<"{", ToString(v.f), "}">>)

(***************************************************************************)
(* _extract_content_from_result                                            *)
(***************************************************************************)
\* the first `or` chain: the candidates in evaluation order
Candidates(r) ==
    PyOr(PyGet(r, "output", EmptyStr),
    PyOr(PyGet(r, "response", EmptyStr),
    PyOr(PyGet(r, "message", EmptyStr),
    PyOr(PyGet(r, "content", EmptyStr),
    PyOr(PyGet(r, "text", EmptyStr),
    PyOr(PyGet(PyGet(r, "data", EmptyDict), "output", EmptyStr),
    PyOr(PyGet(PyGet(r, "data", EmptyDict), "response", EmptyStr),
    PyOr(PyGet(PyGet(r, "result", EmptyDict), "output", EmptyStr),
         PyGet(PyGet(r, "result", EmptyDict), "response", EmptyStr)))))))))

\* the second chain, applied when the located value is a dict
NestedText(c) ==
    PyOr(PyGet(c, "text", EmptyStr),
    PyOr(PyGet(c, "message", EmptyStr),
    PyOr(PyGet(c, "content", EmptyStr),
         PyStrOf(c))))

_extract_content_from_result(r) ==
    LET c1 == Candidates(r)
        c2 == IF c1.t = "obj" THEN NestedText(c1) ELSE c1
        out == IF c2.t = "raise" THEN c2
               ELSE IF PyTruthy(c2) THEN PyStrip(c2) ELSE PyNone
    IN  IF out.t = "raise" THEN PyNone ELSE out

(***************************************************************************)
(* Results and errors of the agent operations.  An error message f-string   *)
(* is kept as a record of its fixed text and of the values formatted in.   *)
(***************************************************************************)
NoResult == [t |-> "noresult"]
Failure(e) == [success |-> FALSE, error |-> e]
Success(content, sid, rid, full) ==
    [success |-> TRUE, content |-> content, session_id |-> sid,
     request_id |-> rid, full_result |-> full]
Submitted(rid, sid) ==
    [success |-> TRUE, request_id |-> rid, session_id |-> sid, status |-> "submitted"]

ErrNotConfigured == [msg |-> "AIxplain API key or Agent ID not configured"]
ErrSubmit(status, detail) ==
    [msg |-> "Agent submission failed with status", status |-> status, detail |-> detail]
ErrNoRequestId == [msg |-> "No request ID received from agent"]
ErrEmpty == [msg |-> "Empty response from agent"]
ErrTimeout == [msg |-> "Agent response timeout"]

Ops == {"initialize_with_system_prompt", "continue_conversation",
        "generate_response_sync", "generate_response_async"}

\* the text each operation puts before str(e) in its except clause
UnexpectedPrefix(o) ==
    CASE o = "initialize_with_system_prompt" -> "Unexpected error during initialization"
      [] o = "continue_conversation" -> "Unexpected error continuing conversation"
      [] OTHER -> "Unexpected error"
ErrUnexpected(o, exc) == [msg |-> UnexpectedPrefix(o), exc |-> exc]

(***************************************************************************)
(* The provider: what a POST .../run and a GET .../result may answer.      *)
(***************************************************************************)
ABSENT == "<absent>"                 \* a key that is not in a JSON body
SessionIds == {"s1", "s2"}
RequestIds == {"r1"}
Statuses == {200, 201, 202, 401, 500}
SubmitResponses ==
    {[kind |-> "exception", exc |-> "ConnectionError"]}
    \cup [kind : {"http"}, status : Statuses, json : {"object", "malformed", "array"},
          requestId : RequestIds \cup {NONE, ""}, sessionId : SessionIds \cup {NONE}]
NoResponse == [kind |-> "none"]

HardCodedQuery == <<"agent.py:378 query literal">>
SystemPrompt == <<"SPEAKER_KIT_SYSTEM_PROMPT">>
UserTexts == {<<"John">>}
ImageNote == <<" [I've uploaded an image]">>
QueryArgs == {SystemPrompt} \cup UserTexts \cup {u \o ImageNote : u \in UserTexts}
CallerSessionIds == SessionIds \cup {NONE, ""}

Obj1(k, v) == JObj(k :> v)
Obj2(k1, v1, k2, v2) == JObj((k1 :> v1) @@ (k2 :> v2))
Obj3(k1, v1, k2, v2, k3, v3) == JObj((k1 :> v1) @@ (k2 :> v2) @@ (k3 :> v3))
Done == JBool(TRUE)
Hi == JStr(<<"Hi!", " ", "What's your name?">>)

\* payloads a 200 poll response may carry
PollPayloads ==
    { EmptyDict,
      Obj1("completed", JBool(FALSE)),
      Obj2("completed", JBool(FALSE), "output", JStr(<<"partial">>)),
      Obj1("completed", Done),
      Obj2("completed", Done, "output", Hi),
      Obj2("completed", Done, "output", JStr(<<" ", "padded", " ">>)),
      Obj2("completed", Done, "output", JStr(<<" ">>)),
      Obj3("completed", Done, "output", EmptyStr, "response", JStr(<<"second">>)),
      Obj3("completed", Done, "output", JStr(<<"first">>), "response", JStr(<<"second">>)),
      Obj2("completed", Done, "data", Obj1("output", JStr(<<"wrapped">>))),
      Obj3("completed", Done, "data", JNull, "result", Obj1("output", JStr(<<"late">>))),
      Obj2("completed", Done, "output", Obj1("text", JStr(<<"inner">>))),
      Obj2("completed", Done, "result", Obj1("response", EmptyDict)) }

Malformed == [t |-> "malformed"]     \* a body that is not JSON
PollResponses ==
    {[kind |-> "exception", exc |-> "RequestException"], [kind |-> "http", status |-> 500]}
    \cup [kind : {"http"}, status : {200}, body : PollPayloads \cup {JNull, Malformed}]

max_attempts == 24
SleepSeconds == 5

(***************************************************************************)
(* The agent operations (services/agent.py)                                *)
(***************************************************************************)
\* the exceptions the HTTP calls and the handling of their bodies can raise
Exceptions == {"ConnectionError", "RequestException", "JSONDecodeError", "AttributeError"}

OpCatches_requests_only(exc) == exc \in {"ConnectionError", "RequestException"}

OpCatches_nothing(exc) == FALSE

\* `except Exception` around the body of every operation
OpCatches(exc) == exc \in Exceptions

Unwind_retry(o, exc) == result' = NoResult /\ pc' = "submit"

\* an exception reaches the end of the operation's try block: the except clause
\* turns it into a failure result; uncaught, it would leave the operation
Unwind(o, exc) ==
    IF OpCatches(exc)
    THEN result' = Failure(ErrUnexpected(o, exc)) /\ pc' = "returned"
    ELSE result' = Raise(exc) /\ pc' = "raised"

AcceptedStatus_202(s) == s \in {200, 201, 202}

\* response.status_code not in [200, 201] is a failed submission
AcceptedStatus(s) == s \in {200, 201}

HasRequestId_unchecked(rid) == TRUE

\* `if not request_id` rejects a missing, null or empty requestId
HasRequestId(rid) == Truthy(rid)

\* the JSON body each operation posts
PostBody(o, arg, sid) ==
    CASE o = "initialize_with_system_prompt" ->
            [query |-> HardCodedQuery, sessionId |-> IF Truthy(sid) THEN sid ELSE ABSENT]
      [] o = "continue_conversation" ->
            [query |-> arg, sessionId |-> sid]
      [] OTHER ->
            [query |-> arg, sessionId |-> IF Truthy(sid) THEN sid ELSE ABSENT]

PollSession_async_callers_own(o, new_sid, sid) ==
    IF o \in {"continue_conversation", "generate_response_async"} THEN sid
    ELSE IdOr(new_sid, sid)

\* the session id handed to _poll_for_result after an accepted submit
PollSession(o, new_sid, sid) ==
    IF o = "continue_conversation" THEN sid ELSE IdOr(new_sid, sid)

NoCall ==
    /\ pc = "idle" /\ op = "none" /\ caller = "none" /\ session_id = NONE
    /\ callback = FALSE /\ posts = 0 /\ post_body = [query |-> <<>>, sessionId |-> ABSENT]
    /\ sub = NoResponse /\ request_id = NONE /\ result = NoResult

NoPoll ==
    /\ ppc = "off" /\ poll_session = NONE /\ attempt = 0 /\ gets = 0 /\ sleeps = 0
    /\ clock = 0 /\ last_get = -1 /\ gap_ok = TRUE /\ poll_failed = FALSE
    /\ poll_odd = FALSE
    /\ done_at = 0 /\ poll_payload = PyNone /\ poll_result = NoResult

NoCallback == cb_count = 0 /\ cb_result = NoResult

NoScript == [sid |-> NONE, sub |-> NoResponse, polls |-> <<>>]
NoPair == script = NoScript /\ sync_result = NoResult

\* the frame of a finished call is dropped
DropCall ==
    /\ pc' = "idle" /\ op' = "none" /\ caller' = "none" /\ session_id' = NONE
    /\ callback' = FALSE /\ posts' = 0
    /\ post_body' = [query |-> <<>>, sessionId |-> ABSENT]
    /\ sub' = NoResponse /\ request_id' = NONE /\ result' = NoResult
    /\ ppc' = "off" /\ poll_session' = NONE /\ attempt' = 0 /\ gets' = 0 /\ sleeps' = 0
    /\ clock' = 0 /\ last_get' = -1 /\ gap_ok' = TRUE /\ poll_failed' = FALSE
    /\ poll_odd' = FALSE
    /\ done_at' = 0 /\ poll_payload' = PyNone /\ poll_result' = NoResult
    /\ cb_count' = 0 /\ cb_result' = NoResult
    /\ UNCHANGED configured

Enter_unchecked(c, o, arg, sid, cb) ==
    /\ op' = o /\ caller' = c /\ session_id' = sid /\ callback' = cb
    /\ posts' = 0 /\ post_body' = [query |-> arg, sessionId |-> ABSENT]
    /\ sub' = NoResponse /\ request_id' = NONE
    /\ pc' = "submit" /\ result' = NoResult
    /\ ppc' = "off" /\ poll_session' = NONE /\ attempt' = 0 /\ gets' = 0 /\ sleeps' = 0
    /\ clock' = 0 /\ last_get' = -1 /\ gap_ok' = TRUE /\ poll_failed' = FALSE
    /\ poll_odd' = FALSE
    /\ done_at' = 0 /\ poll_payload' = PyNone /\ poll_result' = NoResult
    /\ cb_count' = 0 /\ cb_result' = NoResult
    /\ UNCHANGED configured

\* entry of an operation up to the POST: a fresh frame and the configuration check
Enter(c, o, arg, sid, cb) ==
    /\ op' = o /\ caller' = c /\ session_id' = sid /\ callback' = cb
    /\ posts' = 0 /\ post_body' = [query |-> arg, sessionId |-> ABSENT]
    /\ sub' = NoResponse /\ request_id' = NONE
    /\ IF configured
       THEN pc' = "submit" /\ result' = NoResult
       ELSE pc' = "returned" /\ result' = Failure(ErrNotConfigured)
    /\ ppc' = "off" /\ poll_session' = NONE /\ attempt' = 0 /\ gets' = 0 /\ sleeps' = 0
    /\ clock' = 0 /\ last_get' = -1 /\ gap_ok' = TRUE /\ poll_failed' = FALSE
    /\ poll_odd' = FALSE
    /\ done_at' = 0 /\ poll_payload' = PyNone /\ poll_result' = NoResult
    /\ cb_count' = 0 /\ cb_result' = NoResult
    /\ UNCHANGED configured

\* requests.post and the handling of its response, up to the call of
\* _poll_for_result (or, in the async form, the start of the polling thread)
Submit(resp) ==
    /\ pc = "submit"
    /\ posts' = posts + 1
    /\ post_body' = PostBody(op, post_body.query, session_id)
    /\ sub' = resp
    /\ UNCHANGED <<configured, op, caller, session_id, callback>>
    /\ UNCHANGED cbVars
    /\ IF resp.kind = "exception"
       THEN /\ Unwind(op, resp.exc)
            /\ UNCHANGED <<request_id, pollVars>>
       ELSE IF ~AcceptedStatus(resp.status)
       THEN /\ result' = Failure(ErrSubmit(resp.status, resp.json))
            /\ pc' = "returned"
            /\ UNCHANGED <<request_id, pollVars>>
       ELSE IF resp.json = "malformed"
       THEN /\ Unwind(op, "JSONDecodeError")
            /\ UNCHANGED <<request_id, pollVars>>
       ELSE IF resp.json = "array"
       THEN /\ Unwind(op, "AttributeError")
            /\ UNCHANGED <<request_id, pollVars>>
       ELSE IF ~HasRequestId(resp.requestId)
       THEN /\ result' = Failure(ErrNoRequestId)
            /\ pc' = "returned"
            /\ UNCHANGED <<request_id, pollVars>>
       ELSE /\ request_id' = resp.requestId
            /\ poll_session' = PollSession(op, resp.sessionId, session_id)
            /\ IF op = "generate_response_async"
               THEN /\ result' = Submitted(resp.requestId,
                                           IdOr(resp.sessionId, session_id))
                    /\ pc' = "returned"
                    /\ ppc' = IF callback THEN "get" ELSE "off"
               ELSE /\ result' = NoResult
                    /\ pc' = "polling"
                    /\ ppc' = "get"
            /\ UNCHANGED <<attempt, gets, sleeps, clock, last_get, gap_ok,
                           poll_failed, poll_odd, done_at, poll_payload, poll_result>>

\* _poll_for_result returns res: to the operation, which returns it, or (in the
\* async form) to the thread, which passes it to the callback
Finish(res) ==
    /\ ppc' = "done"
    /\ poll_result' = res
    /\ IF op = "generate_response_async"
       THEN /\ cb_count' = cb_count + 1
            /\ cb_result' = res
            /\ UNCHANGED <<pc, result>>
       ELSE /\ result' = res
            /\ pc' = "returned"
            /\ UNCHANGED cbVars

\* result.get("completed")
Completed(body) == PyTruthy(PyGet(body, "completed", PyNone))

WithinAttempts_25(a) == a < max_attempts + 1

WithinAttempts_forever(a) == TRUE

\* the loop condition of _poll_for_result
WithinAttempts(a) == a < max_attempts

\* get_response.status_code != 200 is a failed attempt
PollStatusOk(s) == s = 200

\* an exception that is no RequestException leaves _poll_for_result: the
\* operation's own except clause turns it into a failure result; in the polling
\* thread of the async form nothing catches it and the callback is not called
PollRaise(exc) ==
    /\ ppc' = "raised"
    /\ UNCHANGED <<poll_result, cbVars>>
    /\ IF op = "generate_response_async"
       THEN UNCHANGED <<pc, result>>
       ELSE Unwind(op, exc)

PollOutcomes_fail_fast(resp) ==
    IF resp.kind = "exception" THEN {"raise"}
    ELSE IF ~PollStatusOk(resp.status) THEN {"raise"}
    ELSE IF resp.body.t = "malformed" THEN {"undecodable", "raise"}
    ELSE IF PyGet(resp.body, "completed", PyNone).t = "raise" THEN {"raise"}
    ELSE IF Completed(resp.body) THEN {"completed"}
    ELSE {"pending"}

\* what one iteration does with the response of its GET.  get_response.json()
\* on a body that is no JSON raises JSONDecodeError, which is a RequestException
\* in requests >= 2.27 and a plain ValueError before: both are modelled.
PollOutcomes(resp) ==
    IF resp.kind = "exception" THEN {"failed"}
    ELSE IF ~PollStatusOk(resp.status) THEN {"failed"}
    ELSE IF resp.body.t = "malformed" THEN {"undecodable", "raise"}
    ELSE IF PyGet(resp.body, "completed", PyNone).t = "raise" THEN {"raise"}
    ELSE IF Completed(resp.body) THEN {"completed"}
    ELSE {"pending"}

\* one iteration of the loop of _poll_for_result: the GET and what follows it,
\* up to the sleep or the return
PollGet(resp, outcome) ==
    /\ ppc = "get"
    /\ WithinAttempts(attempt)
    /\ outcome \in PollOutcomes(resp)
    /\ attempt' = attempt + 1
    /\ gets' = gets + 1
    /\ last_get' = clock
    /\ gap_ok' = (gap_ok /\ (last_get = -1 \/ clock - last_get >= SleepSeconds))
    /\ UNCHANGED <<configured, op, caller, session_id, callback, posts, post_body,
                   sub, request_id, poll_session, sleeps, clock>>
    /\ poll_failed' = (poll_failed \/ resp.kind = "exception" \/ resp.status # 200)
    /\ poll_odd' = (poll_odd \/ (resp.kind = "http" /\ resp.status = 200
                                 /\ resp.body.t # "obj"))
    /\ CASE outcome \in {"failed", "undecodable", "pending"} ->
                /\ ppc' = "sleep"
                /\ UNCHANGED <<done_at, poll_payload, poll_result, pc, result, cbVars>>
         [] outcome = "raise" ->
                /\ PollRaise(IF resp.kind = "http" /\ resp.status = 200
                                /\ resp.body.t = "malformed"
                             THEN "JSONDecodeError" ELSE "AttributeError")
                /\ UNCHANGED <<done_at, poll_payload>>
         [] outcome = "completed" ->
                /\ done_at' = attempt + 1
                /\ poll_payload' = resp.body
                /\ LET content == _extract_content_from_result(resp.body)
                   IN  IF PyTruthy(content)
                       THEN Finish(Success(content, poll_session, request_id, resp.body))
                       ELSE Finish(Failure(ErrEmpty))

\* time.sleep(5), then back to the loop condition
PollSleep ==
    /\ ppc = "sleep"
    /\ sleeps' = sleeps + 1
    /\ clock' = clock + SleepSeconds
    /\ ppc' = "get"
    /\ UNCHANGED <<agentVars, cbVars, poll_session, attempt, gets, last_get, gap_ok,
                   poll_failed, poll_odd, done_at, poll_payload, poll_result>>

\* the loop condition fails: the return after the loop
PollTimeout ==
    /\ ppc = "get"
    /\ ~WithinAttempts(attempt)
    /\ Finish(Failure(ErrTimeout))
    /\ UNCHANGED <<configured, op, caller, session_id, callback, posts, post_body,
                   sub, request_id, poll_session, attempt, gets, sleeps, clock,
                   last_get, gap_ok, poll_failed, poll_odd, done_at, poll_payload>>

\* the provider answers the POST
AgentSubmit == \E resp \in SubmitResponses : Submit(resp) /\ UNCHANGED <<extractVars, pairVars, chatVars, serverVars>>

\* the provider answers a GET
AgentPoll ==
    \E resp \in PollResponses, outcome \in {"failed", "undecodable", "pending",
                                            "raise", "completed"} :
        PollGet(resp, outcome) /\ UNCHANGED <<extractVars, pairVars, chatVars, serverVars>>

AgentSleep == PollSleep /\ UNCHANGED <<extractVars, pairVars, chatVars, serverVars>>

AgentTimeout == PollTimeout /\ UNCHANGED <<extractVars, pairVars, chatVars, serverVars>>

(***************************************************************************)
(* The store of the chat views (models.py) and the client sessions.        *)
(***************************************************************************)
ConvIds == {"c1", "c2"}              \* well-formed UUIDs a client may name
ChatConvIds == {"c1"}                \* those the requests of SpecChat name
BadId == "not-a-uuid"
Clients == {"cl1", "cl2"}            \* anonymous clients, one Django session each
Title == "Speaker Kit Assistant"
Fallback == <<"Hi there! I'm here to help you build your speaker kit. ...">>
ErrorText == <<"Something went wrong. Please try again.">>
ErrNoSession == [msg |-> "No session ID - conversation not properly initialized"]
MaxRequests == 2

\* a Conversation row; aixplain_session_id has no default and is null on create
Conversation(title) == [title |-> title, aixplain_session_id |-> NONE]

\* a Message row
Message(c, ty, text, img) ==
    [conversation |-> c, message_type |-> ty, content |-> text, image |-> img]

\* a session no request has written yet: request.session.get(key) gives None
NoSession == [conversations |-> <<>>, aixplain_session |-> [c \in ConvIds |-> NONE]]

NoResponseYet == [status |-> 0]

\* the state of a request: where its handler stands (rpc), its inputs, its
\* locals, the rows it has created so far (rows), the Message held in the
\* handler's user_message (user_row), and the response: status and error keys
\* (response) and the serialized messages (data); session_modified is
\* request.session.modified, store_error says that a Message.objects.create
\* of the handler raised
NoRequest ==
    [rpc |-> "idle", view |-> "none", client |-> "none", conversation_id |-> "none",
     content |-> <<>>, image |-> FALSE, created |-> FALSE,
     aixplain_session_id |-> NONE, user_message |-> <<>>,
     init_calls |-> 0, continue_calls |-> 0, response |-> NoResponseYet,
     rows |-> <<>>, user_row |-> NoResult, data |-> NoResult,
     session_modified |-> FALSE, store_error |-> FALSE]

Workers == {"w1", "w2"}              \* threads of the server handling requests
MaxServerRequests == 3

\* a worker: its request, its copy of the client's session (loaded when the
\* request arrives) and whether its request overlapped another send_message of
\* the same client on the same conversation
NoWorker == [req |-> NoRequest, cache |-> NoSession, overlap |-> FALSE]

\* the count of a conversation id whose row was deleted: a later row with the
\* same id is another conversation, and the calls are not counted together
Deleted == -1

NoServer ==
    /\ workers = [w \in Workers |-> NoWorker]
    /\ last_token = [cl \in Clients |-> [c \in ConvIds |-> NONE]]
    /\ init_count = [c \in ConvIds |-> 0]

NoChat ==
    /\ conversations = <<>>
    /\ messages = <<>>
    /\ session = [cl \in Clients |-> NoSession]
    /\ req = NoRequest
    /\ requests = 0
    /\ NoServer

(***************************************************************************)
(* SpecAgent: the operations called directly, one call after another.      *)
(***************************************************************************)
ApiCall ==
    \E o \in Ops, arg \in UserTexts \cup {SystemPrompt}, sid \in CallerSessionIds,
       cb \in BOOLEAN :
        /\ (cb => o = "generate_response_async")
        /\ (o = "initialize_with_system_prompt") = (arg = SystemPrompt)
        /\ pc = "idle"
        /\ Enter("api", o, arg, sid, cb)
        /\ UNCHANGED <<extractVars, pairVars, chatVars, serverVars>>

\* the caller has its result and any polling thread has ended: next call
ApiReset ==
    /\ caller = "api"
    /\ pc = "returned"
    /\ ppc \in {"off", "done", "raised"}
    /\ DropCall
    /\ UNCHANGED <<extractVars, pairVars, chatVars, serverVars>>

InitAgent ==
    /\ configured \in BOOLEAN
    /\ NoCall /\ NoPoll /\ NoCallback /\ NoPair
    /\ ex_in = EmptyDict /\ ex_out = NoResult
    /\ NoChat

NextAgent == ApiCall \/ AgentSubmit \/ AgentPoll \/ AgentSleep \/ AgentTimeout \/ ApiReset

SpecAgent == InitAgent /\ [][NextAgent]_vars

\* the thread that runs a call, and the polling thread of the async form, are
\* scheduled as long as they have a step to take
SpecAgentLive ==
    SpecAgent /\ WF_vars(AgentSubmit \/ AgentPoll \/ AgentSleep \/ AgentTimeout)

(***************************************************************************)
(* SpecPair: generate_response_sync, then generate_response_async with a   *)
(* callback, called with the same arguments against a provider that gives  *)
(* both calls the same answers (the script).                               *)
(***************************************************************************)
MaxScript == 2      \* answers to GETs a script lists

\* the provider's answers to the POST
PairSubmitResponses ==
    {[kind |-> "exception", exc |-> "ConnectionError"],
     [kind |-> "http", status |-> 200, json |-> "malformed", requestId |-> NONE,
      sessionId |-> NONE]}
    \cup [kind : {"http"}, status : {200, 500}, json : {"object"},
          requestId : RequestIds \cup {NONE}, sessionId : {"s1", NONE}]

\* the provider's answers to a GET (bodies whose handling does not depend on
\* the installed version of requests)
PairPollResponses ==
    {[kind |-> "exception", exc |-> "RequestException"], [kind |-> "http", status |-> 500]}
    \cup [kind : {"http"}, status : {200},
          body : {Obj1("completed", JBool(FALSE)),
                  Obj1("completed", Done),
                  Obj2("completed", Done, "output", Hi),
                  Obj2("completed", Done, "output", JStr(<<" ", "padded", " ">>)),
                  JNull}]

PairPollSeqs ==
    UNION {[1..n -> PairPollResponses] : n \in 0..MaxScript}

Scripts == [sid : CallerSessionIds, sub : PairSubmitResponses, polls : PairPollSeqs]

\* the answer to the i-th GET of a call: after the listed ones the job stays
\* unfinished
PollAt(i) ==
    IF i <= Len(script.polls) THEN script.polls[i]
    ELSE [kind |-> "http", status |-> 200, body |-> Obj1("completed", JBool(FALSE))]

\* generate_response_sync(query, session_id)
PairSync ==
    /\ pc = "idle" /\ sync_result = NoResult
    /\ Enter("pair", "generate_response_sync", <<"John">>, script.sid, FALSE)
    /\ UNCHANGED <<extractVars, pairVars, chatVars, serverVars>>

\* the sync call has returned: generate_response_async(query, callback,
\* session_id) with the same arguments
PairAsync ==
    /\ caller = "pair" /\ op = "generate_response_sync"
    /\ pc \in {"returned", "raised"}
    /\ sync_result' = result
    /\ Enter("pair", "generate_response_async", post_body.query, script.sid, TRUE)
    /\ UNCHANGED <<extractVars, script, chatVars, serverVars>>

PairSubmit ==
    Submit(script.sub) /\ UNCHANGED <<extractVars, pairVars, chatVars, serverVars>>

PairPoll ==
    \E outcome \in {"failed", "pending", "raise", "completed"} :
        /\ PollGet(PollAt(gets + 1), outcome)
        /\ UNCHANGED <<extractVars, pairVars, chatVars, serverVars>>

PairSleep == PollSleep /\ UNCHANGED <<extractVars, pairVars, chatVars, serverVars>>

PairTimeout == PollTimeout /\ UNCHANGED <<extractVars, pairVars, chatVars, serverVars>>

InitPair ==
    /\ configured \in BOOLEAN
    /\ NoCall /\ NoPoll /\ NoCallback
    /\ script \in Scripts /\ sync_result = NoResult
    /\ ex_in = EmptyDict /\ ex_out = NoResult
    /\ NoChat

NextPair == PairSync \/ PairAsync \/ PairSubmit \/ PairPoll \/ PairSleep \/ PairTimeout

SpecPair == InitPair /\ [][NextPair]_vars

(***************************************************************************)
(* SpecExtract: _extract_content_from_result on every payload of a bounded *)
(* family.  A payload gives each candidate key a value of its own, so that *)
(* the winning candidate can be told from the result.                      *)
(***************************************************************************)
CandidateKeys == {"output", "response", "message", "content", "text"}
WrapperKeys == {"data", "result"}
Word(k) == JStr(<<k>>)

\* the dict that holds the keys of g whose value is not Absent
MkObj(g) == JObj([k \in {x \in DOMAIN g : g[x] # Absent} |-> g[k]])

TopValues(k) ==
    CASE k = "output" ->
            {Absent, JNull, EmptyStr, Word(k), JStr(<<" ">>), JStr(<<" ", k, " ">>),
             Obj1("output", Word("output.output")),
             Obj1("text", JStr(<<" ", "output.text", " ">>)),
             Obj2("message", Word("output.message"), "text", Word("output.text")),
             Obj1("id", Word("output.id"))}
      [] k = "response" -> {Absent, EmptyStr, Word(k), JStr(<<" ">>)}
      [] k = "content" -> {Absent, Word(k)}
      [] OTHER -> {Absent, EmptyStr, Word(k)}

InnerValues(w, k) ==
    IF w = "result" /\ k = "response"
    THEN {Absent, EmptyStr, Word(w \o "." \o k), EmptyDict}
    ELSE {Absent, EmptyStr, Word(w \o "." \o k)}

WrapperValues(w) ==
    {Absent, JNull}
    \cup {MkObj(("output" :> o) @@ ("response" :> r)) :
            o \in InnerValues(w, "output"), r \in InnerValues(w, "response")}

ExtractInputs ==
    {MkObj(("output" :> o) @@ ("response" :> r) @@ ("message" :> m) @@ ("content" :> c)
           @@ ("text" :> t) @@ ("data" :> d) @@ ("result" :> w)) :
        o \in TopValues("output"), r \in TopValues("response"),
        m \in TopValues("message"), c \in TopValues("content"),
        t \in TopValues("text"), d \in WrapperValues("data"),
        w \in WrapperValues("result")}

Extract ==
    /\ ex_out = NoResult
    /\ ex_out' = _extract_content_from_result(ex_in)
    /\ UNCHANGED <<ex_in, agentVars, pollVars, cbVars, chatVars, serverVars, pairVars>>

InitExtract ==
    /\ configured = TRUE
    /\ NoCall /\ NoPoll /\ NoCallback /\ NoPair
    /\ ex_in \in ExtractInputs
    /\ ex_out = NoResult
    /\ NoChat

NextExtract == Extract

SpecExtract == InitExtract /\ [][NextExtract]_vars

(***************************************************************************)
(* The chat views (views.py).  A handler runs from one agent call to the   *)
(* next in one step; the agent call itself runs in the steps of the agent  *)
(* operations above.  A handler step works on h, the store and the locals  *)
(* as the handler has them so far.                                         *)
(***************************************************************************)
Here == [conversations |-> conversations, messages |-> messages,
         session |-> session, req |-> req]

\* the <uuid:conversation_id> converter of urls.py
Routed(id) == id \in ConvIds

\* uuid.UUID(str(conversation_id)) does not raise
ValidUuid(id) == id \in ConvIds

\* request.data.get('content', '').strip()
Contents == UserTexts \cup {<<>>, <<" ">>, <<" ", "John", " ">>}

NewRequest(v, cl, id, content, image) ==
    [NoRequest EXCEPT !.rpc = "begin", !.view = v, !.client = cl,
                      !.conversation_id = id, !.content = content, !.image = image]

\* the handler returns its Response; after a create that raised, the 500 of
\* the except clause around it
Respond(h, st, err, details) ==
    IF h.req.store_error
    THEN [h EXCEPT !.req.rpc = "done",
                   !.req.response = [status |-> 500, agent_error |-> FALSE,
                                     agent_error_details |-> NoResult]]
    ELSE [h EXCEPT !.req.rpc = "done",
                   !.req.response = [status |-> st, agent_error |-> err,
                                     agent_error_details |-> details]]

\* Message.objects.create(conversation=conversation, ...): raises (foreign key)
\* when the conversation row is gone; after a raise the handler does nothing
\* more than return its 500
AddMessage(h, ty, text, img) ==
    IF h.req.store_error \/ h.req.conversation_id \notin DOMAIN h.conversations
    THEN [h EXCEPT !.req.store_error = TRUE]
    ELSE [h EXCEPT
            !.messages = Append(@, Message(h.req.conversation_id, ty, text, img)),
            !.req.rows = Append(@, Message(h.req.conversation_id, ty, text, img))]

\* response_data: the serialized user_message and ai_message
ResponseData(h) ==
    IF h.req.store_error THEN h
    ELSE [h EXCEPT !.req.data = [user_message |-> h.req.user_row,
                                 ai_message |-> h.req.rows[Len(h.req.rows)]]]

\* request.session[f'aixplain_session_{conversation.id}'] = sid
StoreToken(h, sid) ==
    IF h.req.store_error THEN h
    ELSE [h EXCEPT
            !.session[h.req.client].aixplain_session[h.req.conversation_id] = sid,
            !.req.session_modified = TRUE]

\* if ai_response.get('session_id'): store it
StoreTokenIfAny(h, sid) == IF Truthy(sid) THEN StoreToken(h, sid) ELSE h

\* Conversation.objects.create(...) and the session's list of conversations
CreateConversation(h) ==
    [h EXCEPT !.conversations = @ @@ (h.req.conversation_id :> Conversation(Title)),
              !.session[h.req.client].conversations =
                    Append(@, h.req.conversation_id),
              !.req.session_modified = TRUE,
              !.req.created = TRUE]

\* initialize_conversation_with_system_prompt: the result on success, else None
initialize_conversation_with_system_prompt(res) ==
    IF "success" \in DOMAIN res /\ res.success THEN res ELSE PyNone

\* `ai_response and ai_response.get('success')`
InitOk(ai) == ai # PyNone /\ ai.success

\* the handler enters initialize_conversation_with_system_prompt
StartInit(h, at) ==
    [h EXCEPT !.req.rpc = at, !.req.init_calls = @ + 1]

AgentReply_silent(h, res) ==
    IF res.success
    THEN Respond(AddMessage(StoreTokenIfAny(h, res.session_id), "ai", res.content.s,
                            FALSE),
                 201, FALSE, NoResult)
    ELSE Respond(h, 500, FALSE, res.error)

AgentReply_forgets_token(h, res) ==
    ResponseData(
        IF res.success
        THEN Respond(AddMessage(StoreTokenIfAny(h, res.session_id), "ai",
                                res.content.s, FALSE),
                     201, FALSE, NoResult)
        ELSE Respond(AddMessage(StoreToken(h, NONE), "ai", ErrorText, FALSE),
                     201, TRUE, res.error))

\* send_message from the agent's answer on: the reply or the error text
AgentReply(h, res) ==
    ResponseData(
        IF res.success
        THEN Respond(AddMessage(StoreTokenIfAny(h, res.session_id), "ai",
                                res.content.s, FALSE),
                     201, FALSE, NoResult)
        ELSE Respond(AddMessage(h, "ai", ErrorText, FALSE), 201, TRUE, res.error))

continue_conversation_with_agent_unguarded(h) ==
    [h EXCEPT !.req.rpc = "continue",
              !.req.user_message =
                    IF h.req.image THEN h.req.content \o ImageNote
                    ELSE h.req.content,
              !.req.continue_calls = @ + 1]

\* continue_conversation_with_agent up to the call of the service
continue_conversation_with_agent(h) ==
    IF ~Truthy(h.req.aixplain_session_id)
    THEN AgentReply(h, Failure(ErrNoSession))
    ELSE [h EXCEPT !.req.rpc = "continue",
                   !.req.user_message =
                        IF h.req.image THEN h.req.content \o ImageNote
                        ELSE h.req.content,
                   !.req.continue_calls = @ + 1]

UserTurn_unsaved(h) ==
    LET h1 == [h EXCEPT !.req.user_row = Message(h.req.conversation_id, "user",
                                                 h.req.content, h.req.image)]
        tok == h1.session[h.req.client].aixplain_session[h.req.conversation_id]
        h2 == [h1 EXCEPT !.req.aixplain_session_id = tok]
    IN  IF h.req.store_error THEN Respond(h, 500, FALSE, NoResult)
        ELSE IF ~Truthy(tok) THEN StartInit(h2, "reinit")
        ELSE continue_conversation_with_agent(h2)

UserTurn_always_initializes(h) ==
    LET h0 == AddMessage(h, "user", h.req.content, h.req.image)
        h1 == [h0 EXCEPT !.req.user_row = h0.req.rows[Len(h0.req.rows)]]
        tok == h1.session[h.req.client].aixplain_session[h.req.conversation_id]
        h2 == [h1 EXCEPT !.req.aixplain_session_id = tok]
    IN  IF h0.req.store_error THEN Respond(h0, 500, FALSE, NoResult)
        ELSE StartInit(h2, "reinit")

\* send_message: the user message, then the stored token or a re-initialization
UserTurn(h) ==
    LET h0 == AddMessage(h, "user", h.req.content, h.req.image)
        h1 == [h0 EXCEPT !.req.user_row = h0.req.rows[Len(h0.req.rows)]]
        tok == h1.session[h.req.client].aixplain_session[h.req.conversation_id]
        h2 == [h1 EXCEPT !.req.aixplain_session_id = tok]
    IN  IF h0.req.store_error THEN Respond(h0, 500, FALSE, NoResult)
        ELSE IF ~Truthy(tok) THEN StartInit(h2, "reinit")
        ELSE continue_conversation_with_agent(h2)

\* send_message after the initialization of a conversation it created
AfterCreate(h, ai) ==
    UserTurn(IF InitOk(ai)
             THEN StoreTokenIfAny(AddMessage(h, "ai", ai.content.s, FALSE),
                                  ai.session_id)
             ELSE h)

AfterReinit_persisted(h, ai) ==
    continue_conversation_with_agent(
        IF ai # PyNone /\ Truthy(ai.session_id)
        THEN [StoreToken(AddMessage(h, "ai", ai.content.s, FALSE), ai.session_id)
                EXCEPT !.req.aixplain_session_id = ai.session_id]
        ELSE h)

\* send_message after the re-initialization for a missing token
AfterReinit(h, ai) ==
    continue_conversation_with_agent(
        IF ai # PyNone /\ Truthy(ai.session_id)
        THEN [StoreToken(h, ai.session_id) EXCEPT
                    !.req.aixplain_session_id = ai.session_id]
        ELSE h)

send_message_unvalidated(h) ==
    LET r == h.req
    IN  IF ~Routed(r.conversation_id) THEN Respond(h, 404, FALSE, NoResult)
        ELSE IF ~ValidUuid(r.conversation_id) THEN Respond(h, 400, FALSE, NoResult)
        ELSE LET content == Strip(r.content)
                 h1 == [h EXCEPT !.req.content = content]
             IN  IF r.conversation_id \in DOMAIN h.conversations
                 THEN UserTurn(h1)
                 ELSE StartInit(CreateConversation(h1), "init")

\* send_message up to its first agent call or its response
send_message(h) ==
    LET r == h.req
    IN  IF ~Routed(r.conversation_id) THEN Respond(h, 404, FALSE, NoResult)
        ELSE IF ~ValidUuid(r.conversation_id) THEN Respond(h, 400, FALSE, NoResult)
        ELSE LET content == Strip(r.content)
                 h1 == [h EXCEPT !.req.content = content]
             IN  IF content = <<>> /\ ~r.image THEN Respond(h1, 400, FALSE, NoResult)
                 ELSE IF r.conversation_id \in DOMAIN h.conversations
                 THEN UserTurn(h1)
                 ELSE StartInit(CreateConversation(h1), "init")

get_conversation_messages_init_when_empty(h) ==
    LET r == h.req
    IN  IF ~Routed(r.conversation_id) THEN Respond(h, 404, FALSE, NoResult)
        ELSE IF ~ValidUuid(r.conversation_id) THEN Respond(h, 400, FALSE, NoResult)
        ELSE IF r.conversation_id \in DOMAIN h.conversations
        THEN IF \E i \in 1..Len(h.messages) :
                    h.messages[i].conversation = r.conversation_id
             THEN Respond(h, 200, FALSE, NoResult)
             ELSE StartInit(h, "init")
        ELSE StartInit(CreateConversation(h), "init")

\* get_conversation_messages up to its agent call or its response
get_conversation_messages(h) ==
    LET r == h.req
    IN  IF ~Routed(r.conversation_id) THEN Respond(h, 404, FALSE, NoResult)
        ELSE IF ~ValidUuid(r.conversation_id) THEN Respond(h, 400, FALSE, NoResult)
        ELSE IF r.conversation_id \in DOMAIN h.conversations
        THEN Respond(h, 200, FALSE, NoResult)
        ELSE StartInit(CreateConversation(h), "init")

AfterLazyInit_no_fallback(h, ai) ==
    Respond(IF InitOk(ai)
            THEN StoreTokenIfAny(AddMessage(h, "ai", ai.content.s, FALSE),
                                 ai.session_id)
            ELSE h,
            200, FALSE, NoResult)

\* get_conversation_messages after the initialization
AfterLazyInit(h, ai) ==
    Respond(IF InitOk(ai)
            THEN StoreTokenIfAny(AddMessage(h, "ai", ai.content.s, FALSE),
                                 ai.session_id)
            ELSE AddMessage(h, "ai", Fallback, FALSE),
            200, FALSE, NoResult)

\* the handler's step takes effect
Commit(h) ==
    /\ conversations' = h.conversations
    /\ messages' = h.messages
    /\ session' = h.session
    /\ req' = h.req

\* the agent call the handler now stands in; with none, the frame of the call it
\* came from is gone
Call(h) ==
    CASE h.req.rpc \in {"init", "reinit"} ->
            Enter("request", "initialize_with_system_prompt", SystemPrompt, NONE, FALSE)
      [] h.req.rpc = "continue" ->
            Enter("request", "continue_conversation", h.req.user_message,
                  h.req.aixplain_session_id, FALSE)
      [] OTHER -> DropCall

\* the agent call of the handler has returned (or raised)
Returned == pc \in {"returned", "raised"} /\ caller = "request"

\* what continue_conversation_with_agent returns once the service call is over:
\* the service's result, or a failure made of the exception it raised
ContinueAnswer(res) ==
    IF "success" \in DOMAIN res THEN res
    ELSE Failure([msg |-> "Agent communication failed", exc |-> res.e])

(***************************************************************************)
(* SpecChat: chat requests handled one after another.                      *)
(***************************************************************************)
ChatSubmitResponses ==
    {[kind |-> "exception", exc |-> "ConnectionError"],
     [kind |-> "http", status |-> 500, json |-> "object", requestId |-> NONE,
      sessionId |-> NONE],
     [kind |-> "http", status |-> 200, json |-> "object", requestId |-> NONE,
      sessionId |-> "s1"]}
    \cup [kind : {"http"}, status : {200}, json : {"object"}, requestId : RequestIds,
          sessionId : SessionIds \cup {NONE}]

ChatPollResponses ==
    {[kind |-> "http", status |-> 200, body |-> Obj1("completed", JBool(FALSE))],
     [kind |-> "http", status |-> 200, body |-> Obj2("completed", Done, "output", Hi)],
     [kind |-> "http", status |-> 200, body |-> Obj1("completed", Done)]}

\* the clients are interchangeable: the first request is cl1's
FirstClient(cl) == requests = 0 => cl = "cl1"

RequestSend ==
    \E cl \in Clients, id \in ChatConvIds \cup {BadId}, content \in Contents,
       image \in BOOLEAN :
        /\ FirstClient(cl)
        /\ req.rpc \in {"idle", "done"}
        /\ requests < MaxRequests
        /\ requests' = requests + 1
        /\ LET h == send_message([Here EXCEPT !.req =
                        NewRequest("send_message", cl, id, content, image)])
           IN  Commit(h) /\ Call(h)
        /\ UNCHANGED <<extractVars, pairVars, serverVars>>

RequestList ==
    \E cl \in Clients, id \in ChatConvIds \cup {BadId} :
        /\ FirstClient(cl)
        /\ req.rpc \in {"idle", "done"}
        /\ requests < MaxRequests
        /\ requests' = requests + 1
        /\ LET h == get_conversation_messages([Here EXCEPT !.req =
                        NewRequest("get_conversation_messages", cl, id, <<>>, FALSE)])
           IN  Commit(h) /\ Call(h)
        /\ UNCHANGED <<extractVars, pairVars, serverVars>>

SendAfterCreate ==
    /\ req.view = "send_message" /\ req.rpc = "init" /\ Returned
    /\ LET h == AfterCreate(Here, initialize_conversation_with_system_prompt(result))
       IN  Commit(h) /\ Call(h)
    /\ UNCHANGED <<extractVars, pairVars, requests, serverVars>>

SendAfterReinit ==
    /\ req.view = "send_message" /\ req.rpc = "reinit" /\ Returned
    /\ LET h == AfterReinit(Here, initialize_conversation_with_system_prompt(result))
       IN  Commit(h) /\ Call(h)
    /\ UNCHANGED <<extractVars, pairVars, requests, serverVars>>

SendAfterContinue ==
    /\ req.view = "send_message" /\ req.rpc = "continue" /\ Returned
    /\ LET h == AgentReply(Here, ContinueAnswer(result))
       IN  Commit(h) /\ Call(h)
    /\ UNCHANGED <<extractVars, pairVars, requests, serverVars>>

ListAfterInit ==
    /\ req.view = "get_conversation_messages" /\ req.rpc = "init" /\ Returned
    /\ LET h == AfterLazyInit(Here, initialize_conversation_with_system_prompt(result))
       IN  Commit(h) /\ Call(h)
    /\ UNCHANGED <<extractVars, pairVars, requests, serverVars>>

ChatSubmit ==
    \E resp \in ChatSubmitResponses : Submit(resp) /\ UNCHANGED <<extractVars, pairVars, chatVars, serverVars>>

ChatPoll ==
    \E resp \in ChatPollResponses, outcome \in {"pending", "completed"} :
        PollGet(resp, outcome) /\ UNCHANGED <<extractVars, pairVars, chatVars, serverVars>>

ChatSleep == PollSleep /\ UNCHANGED <<extractVars, pairVars, chatVars, serverVars>>

ChatTimeout == PollTimeout /\ UNCHANGED <<extractVars, pairVars, chatVars, serverVars>>

InitChat ==
    /\ configured \in BOOLEAN
    /\ NoCall /\ NoPoll /\ NoCallback /\ NoPair
    /\ ex_in = EmptyDict /\ ex_out = NoResult
    /\ NoChat

NextChat ==
    \/ RequestSend \/ RequestList
    \/ SendAfterCreate \/ SendAfterReinit \/ SendAfterContinue \/ ListAfterInit
    \/ ChatSubmit \/ ChatPoll \/ ChatSleep \/ ChatTimeout

SpecChat == InitChat /\ [][NextChat]_vars

(***************************************************************************)
(* SpecServer: requests handled by worker threads at the same time.  Each  *)
(* worker runs the same handlers; an agent call is one step that yields    *)
(* one of the results the operation can return.  request.session is the    *)
(* worker's copy of the client's session, loaded when the request arrives  *)
(* and written back as a whole with the response when it was modified.     *)
(***************************************************************************)
InFlight(w) == workers[w].req.rpc \notin {"idle", "done"}

ServerText == <<"John">>
\* request.data.get('content', ''): a text, or nothing
ServerTexts == {ServerText, <<>>}
ServerClients == {"cl1"}

\* the conversation ids are interchangeable: c1 is the first to be named
FirstConv(id) ==
    id = "c2" => \/ "c1" \in DOMAIN conversations
                 \/ \E cl \in ServerClients :
                        \E i \in 1..Len(session[cl].conversations) :
                            session[cl].conversations[i] = "c1"
                 \/ \E w \in Workers : workers[w].req.conversation_id = "c1"

\* the workers are interchangeable: a request goes to the first free one
FirstFree(w) == \A u \in Workers : (u = "w1" /\ w = "w2") => InFlight(u)
Titles == {Title, "Renamed"}

\* the completed payload behind a successful result
ServerPayload == Obj2("completed", Done, "output", Hi)

\* results operation o can return when called with session id sid: the submit
\* raised, or the submit was accepted with a sessionId and a poll saw the
\* completed payload
ServerResults(o, sid) ==
    {Failure(ErrUnexpected(o, "ConnectionError"))}
    \cup {Success(_extract_content_from_result(ServerPayload),
                  PollSession(o, new, sid), "r1", ServerPayload) :
            new \in SessionIds}


\* what the handler of worker w works on: the store and its copy of the session
HereOf(w) ==
    [conversations |-> conversations, messages |-> messages,
     session |-> [session EXCEPT ![workers[w].req.client] = workers[w].cache],
     req |-> workers[w].req]

\* SessionMiddleware.process_response: a modified session is saved, as a whole,
\* unless the response is a 500
SaveSession(h) ==
    IF h.req.rpc = "done" /\ h.req.session_modified /\ h.req.response.status # 500
    THEN [session EXCEPT ![h.req.client] = h.session[h.req.client]]
    ELSE session

\* the handler step of worker w takes effect
CommitOf(w, h, ws) ==
    /\ conversations' = h.conversations
    /\ messages' = h.messages
    /\ session' = SaveSession(h)
    /\ workers' = [ws EXCEPT ![w].req = h.req, ![w].cache = h.session[h.req.client]]

\* worker v handles a send_message of the same client on the same conversation
SameTurn(v, cl, id) ==
    /\ InFlight(v) /\ workers[v].req.view = "send_message"
    /\ workers[v].req.client = cl /\ workers[v].req.conversation_id = id

\* a request arrives at a free worker, which loads the client's session
Arrive(w, v, cl, id, text) ==
    /\ ~InFlight(w)
    /\ requests < MaxServerRequests
    /\ requests' = requests + 1
    /\ LET r == NewRequest(v, cl, id, text, FALSE)
           h0 == [conversations |-> conversations, messages |-> messages,
                  session |-> session, req |-> r]
           h == IF v = "send_message" THEN send_message(h0)
                ELSE get_conversation_messages(h0)
           ov == {u \in Workers \ {w} : v = "send_message" /\ SameTurn(u, cl, id)}
           ws == [u \in Workers |->
                    IF u = w THEN [NoWorker EXCEPT !.overlap = (ov # {})]
                    ELSE IF u \in ov THEN [workers[u] EXCEPT !.overlap = TRUE]
                    ELSE workers[u]]
       IN  CommitOf(w, h, ws)
    /\ UNCHANGED <<agentVars, pollVars, cbVars, extractVars, pairVars, req, last_token,
                   init_count>>

ServerSend ==
    \E w \in Workers, cl \in ServerClients, id \in ConvIds :
        \E text \in ServerTexts :
            FirstFree(w) /\ FirstConv(id) /\ Arrive(w, "send_message", cl, id, text)

ServerList ==
    \E w \in Workers, cl \in ServerClients, id \in ConvIds :
        FirstFree(w) /\ FirstConv(id)
            /\ Arrive(w, "get_conversation_messages", cl, id, <<>>)

\* the agent call worker w waits for returns res and the handler goes on
ReturnTo(w, res) ==
    LET r == workers[w].req
        ai == initialize_conversation_with_system_prompt(res)
        h == CASE r.view = "send_message" /\ r.rpc = "init" -> AfterCreate(HereOf(w), ai)
               [] r.view = "send_message" /\ r.rpc = "reinit" -> AfterReinit(HereOf(w), ai)
               [] r.view = "send_message" /\ r.rpc = "continue" ->
                        AgentReply(HereOf(w), ContinueAnswer(res))
               [] OTHER -> AfterLazyInit(HereOf(w), ai)
    IN  /\ CommitOf(w, h, workers)
        /\ last_token' =
                IF res.success /\ Truthy(res.session_id)
                THEN [last_token EXCEPT ![r.client][r.conversation_id] = res.session_id]
                ELSE last_token
        /\ init_count' =
                IF /\ r.rpc \in {"init", "reinit"}
                   /\ res.success /\ Truthy(res.session_id)
                   /\ init_count[r.conversation_id] # Deleted
                THEN [init_count EXCEPT ![r.conversation_id] = @ + 1]
                ELSE init_count

ServerReturn ==
    \E w \in Workers :
        /\ InFlight(w)
        /\ \E res \in ServerResults(
                        IF workers[w].req.rpc = "continue" THEN "continue_conversation"
                        ELSE "initialize_with_system_prompt",
                        IF workers[w].req.rpc = "continue"
                        THEN workers[w].req.aixplain_session_id ELSE NONE) :
                ReturnTo(w, res)
        /\ UNCHANGED <<agentVars, pollVars, cbVars, extractVars, pairVars, req, requests>>

\* ConversationDetailView.get_queryset for an anonymous client: the
\* conversations listed in its session
OwnConversations(cl) ==
    {id \in DOMAIN conversations :
        \E i \in 1..Len(session[cl].conversations) : session[cl].conversations[i] = id}

DeleteConversation_all_messages(id) ==
    /\ conversations' = [c \in DOMAIN conversations \ {id} |-> conversations[c]]
    /\ messages' = <<>>

\* instance.delete(): the row and, by on_delete=CASCADE, its messages
DeleteConversation(id) ==
    /\ conversations' = [c \in DOMAIN conversations \ {id} |-> conversations[c]]
    /\ messages' = SelectSeq(messages, LAMBDA m : m.conversation # id)

\* DELETE conversations/<id>/ (404, and no effect, for any other id)
ServerDelete ==
    \E cl \in ServerClients, id \in ConvIds :
        /\ requests < MaxServerRequests
        /\ requests' = requests + 1
        /\ id \in OwnConversations(cl)
        /\ DeleteConversation(id)
        /\ init_count' = [init_count EXCEPT ![id] = Deleted]
        /\ UNCHANGED <<agentVars, pollVars, cbVars, extractVars, pairVars, session, req,
                       workers, last_token>>

\* PUT or PATCH conversations/<id>/: title is the only writable field
ServerUpdate ==
    \E cl \in ServerClients, id \in ConvIds, t \in Titles :
        /\ requests < MaxServerRequests
        /\ requests' = requests + 1
        /\ id \in OwnConversations(cl)
        /\ conversations[id].title # t
        /\ conversations' = [conversations EXCEPT ![id].title = t]
        /\ UNCHANGED <<agentVars, pollVars, cbVars, extractVars, pairVars, messages, session,
                       req, serverVars>>

\* POST conversations/: a row with a new id, listed in the client's session
ServerCreate ==
    \E cl \in ServerClients, id \in ConvIds \ DOMAIN conversations :
        /\ FirstConv(id)
        /\ requests < MaxServerRequests
        /\ requests' = requests + 1
        /\ id \notin OwnConversations(cl)
        /\ conversations' = conversations @@ (id :> Conversation(Title))
        /\ session' = [session EXCEPT ![cl].conversations = Append(@, id)]
        /\ UNCHANGED <<agentVars, pollVars, cbVars, extractVars, pairVars, messages, req,
                       serverVars>>

InitServer ==
    /\ configured = TRUE
    /\ NoCall /\ NoPoll /\ NoCallback /\ NoPair
    /\ ex_in = EmptyDict /\ ex_out = NoResult
    /\ NoChat

NextServer ==
    \/ ServerSend \/ ServerList \/ ServerReturn
    \/ ServerDelete \/ ServerUpdate \/ ServerCreate

SpecServer == InitServer /\ [][NextServer]_vars

(***************************************************************************)
(* Properties of the agent operations (SpecAgent)                          *)
(***************************************************************************)
SyncOps == Ops \ {"generate_response_async"}

\* the submit response carried a status outside {200, 201}
SubmitRejected == sub.kind = "http" /\ sub.status \notin {200, 201}

\* the submit response was accepted and carried a request id
SubmitAccepted ==
    /\ sub.kind = "http" /\ sub.status \in {200, 201}
    /\ sub.json = "object" /\ sub.requestId \notin {NONE, ""}

\* the text the completed payload yields, when polling saw one
ReplyText == _extract_content_from_result(poll_payload)

\* C1: in every operation, a submit response whose status is outside {200, 201}
\* makes the operation return a failure whose error carries that status, and
\* no GET is made for the call (nor a polling thread started).
C1_SubmitFailureClassified ==
    SubmitRejected =>
        /\ pc = "returned"
        /\ result.success = FALSE
        /\ result.error.msg = "Agent submission failed with status"
        /\ result.error.status = sub.status
        /\ gets = 0 /\ ppc = "off" /\ cb_count = 0

C1_Witness ==
    /\ SubmitRejected /\ sub.status = 202 /\ sub.requestId = "r1"
    /\ op = "generate_response_async" /\ callback /\ pc = "returned"

\* C2: when no poll attempt observes completed = true, every attempt being a
\* non-200 status, a network failure or a 200 JSON object without a true
\* completed flag, _poll_for_result makes exactly 24 GETs, sleeps the fixed
\* interval between consecutive GETs and returns 'Agent response timeout'.
C2_PollBoundedness ==
    /\ (gets > 0 /\ ~poll_odd) => gap_ok
    /\ (ppc = "done" /\ done_at = 0 /\ ~poll_odd) =>
            /\ gets = 24
            /\ sleeps >= 23
            /\ clock >= 23 * 5
            /\ poll_result = [success |-> FALSE, error |-> [msg |-> "Agent response timeout"]]
            /\ (op \in SyncOps => pc = "returned" /\ result = poll_result)

C2_Witness ==
    /\ ppc = "done" /\ done_at = 0 /\ ~poll_odd /\ poll_failed /\ gets = 24
    /\ op = "initialize_with_system_prompt" /\ pc = "returned"
    /\ result.error.msg = "Agent response timeout"

\* C3 (as claimed): when the submit response carries a request id and a session
\* id and completed = true with a reply is first seen on the k-th poll, the
\* operation makes exactly k GETs and returns success with the reply text, the
\* request id and the session id of the submit response.
C3_CompletedAtK ==
    (/\ op \in SyncOps /\ pc = "returned" /\ SubmitAccepted /\ sub.sessionId # NONE
     /\ (op = "continue_conversation" => session_id \notin {NONE, ""})
     /\ done_at > 0 /\ PyTruthy(ReplyText)) =>
        /\ gets = done_at
        /\ result.success
        /\ result.content = ReplyText
        /\ result.request_id = sub.requestId
        /\ result.session_id = sub.sessionId

\* C4 (as claimed): continue_conversation with an empty or null session id
\* fails at once and makes no HTTP request.
C4_MissingSessionNoHttp ==
    (op = "continue_conversation" /\ session_id \in {NONE, ""}) =>
        /\ posts = 0 /\ gets = 0
        /\ pc \in {"submit", "returned"}
        /\ (pc = "returned" => result.success = FALSE)

\* C6 (as claimed): in every operation the session id of a successful result
\* is the one of the submit response when it carries one, and the caller's
\* only when it carries none.
C6_ProviderSessionWins ==
    (pc = "returned" /\ SubmitAccepted /\ result.success) =>
        result.session_id = IF sub.sessionId # NONE THEN sub.sessionId ELSE session_id

\* C7: in every operation, an accepted submit response (200 or 201) whose JSON
\* object has no request id makes the operation return the failure
\* 'No request ID received from agent', and no GET is made.
C7_MissingRequestId ==
    (/\ sub.kind = "http" /\ sub.status \in {200, 201} /\ sub.json = "object"
     /\ sub.requestId \in {NONE, ""}) =>
        /\ pc = "returned"
        /\ result = [success |-> FALSE,
                     error |-> [msg |-> "No request ID received from agent"]]
        /\ gets = 0 /\ ppc = "off" /\ cb_count = 0

C7_Witness ==
    /\ sub.kind = "http" /\ sub.status = 201 /\ sub.json = "object"
    /\ sub.requestId = "" /\ sub.sessionId = "s1"
    /\ op = "continue_conversation" /\ session_id = "s1" /\ pc = "returned"

(***************************************************************************)
(* The candidate order as the specification states it                      *)
(***************************************************************************)
CandidatePaths ==
    << <<"output">>, <<"response">>, <<"message">>, <<"content">>, <<"text">>,
       <<"data", "output">>, <<"data", "response">>,
       <<"result", "output">>, <<"result", "response">> >>

Field(o, k) == IF o.t = "obj" /\ k \in DOMAIN o.f THEN o.f[k] ELSE Absent

\* the value a payload holds at a candidate path; Absent when there is none
Lookup(r, path) ==
    IF Len(path) = 1 THEN Field(r, path[1]) ELSE Field(Field(r, path[1]), path[2])

\* a candidate is populated when it holds a non-empty text or object
Populated(v) == PyTruthy(v)

PopulatedIndexes(r) == {i \in 1..Len(CandidatePaths) : Populated(Lookup(r, CandidatePaths[i]))}

FirstPopulated(r) ==
    CHOOSE i \in PopulatedIndexes(r) : \A j \in PopulatedIndexes(r) : i <= j

\* C8 (as claimed): extraction returns the first non-empty candidate in the
\* fixed order (its text, trimmed); an empty earlier candidate never shadows a
\* populated later one.
C8_FirstCandidateWins ==
    (ex_out # NoResult /\ PopulatedIndexes(ex_in) # {}) =>
        LET v == Lookup(ex_in, CandidatePaths[FirstPopulated(ex_in)])
        IN  v.t = "str" => ex_out = JStr(Strip(v.s))

\* C9 (as claimed): completed = true with no populated candidate ends polling
\* at that attempt with 'Empty response from agent': not a timeout, not a
\* success, and no further GET.
C9_EmptyCompletion ==
    (done_at > 0 /\ PopulatedIndexes(poll_payload) = {}) =>
        /\ ppc = "done"
        /\ gets = done_at
        /\ poll_result = [success |-> FALSE,
                          error |-> [msg |-> "Empty response from agent"]]
        /\ (op \in SyncOps => pc = "returned" /\ result = poll_result)

\* C10: a poll attempt that gets a non-200 status or a network failure does not
\* end the call: it counts as one of the 24 attempts, the loop sleeps and goes
\* on, the call fails after such attempts only by exhausting the 24, and a
\* later attempt that reports completed = true with text makes it succeed.
C10_PollFailureRetried ==
    (poll_failed /\ ~poll_odd) =>
        /\ gets = attempt /\ attempt <= 24
        /\ ppc \in {"get", "sleep", "done"}
        /\ (ppc = "sleep" => sleeps = gets - 1)
        /\ (ppc = "get" => sleeps = gets)
        /\ (ppc # "done" => (op \in SyncOps => pc = "polling" /\ result = NoResult))
        /\ (ppc = "done" /\ done_at = 0 =>
                gets = 24 /\ poll_result.error.msg = "Agent response timeout")
        /\ (ppc = "done" /\ done_at > 0 /\ PyTruthy(ReplyText) =>
                poll_result.success /\ poll_result.content = ReplyText)

C10_Witness ==
    /\ poll_failed /\ ~poll_odd /\ ppc = "done" /\ done_at = 24
    /\ op = "generate_response_sync" /\ pc = "returned" /\ result.success

(***************************************************************************)
(* Properties of the chat views (SpecChat)                                 *)
(***************************************************************************)
\* the continue call of the turn has returned a reply, and the provider answered
\* its submit with a session id other than the token the call was made with
Rotated ==
    /\ req.view = "send_message" /\ req.rpc = "continue" /\ Returned
    /\ op = "continue_conversation" /\ result.success
    /\ session_id = session[req.client].aixplain_session[req.conversation_id]
    /\ SubmitAccepted /\ sub.sessionId \in SessionIds /\ sub.sessionId # session_id

\* C5: when a continue call made with the stored token T1 is answered by the
\* provider with a different session id T2, the token stored for the conversation
\* once the turn is over is T2
C5_TokenRotation ==
    [][(Rotated /\ req'.rpc = "done") =>
            session'[req.client].aixplain_session[req.conversation_id] = sub.sessionId]_vars

(***************************************************************************)
(* Properties of the agent operations, continued (SpecAgent)               *)
(***************************************************************************)
\* a tagged result: a success flag and, when it is false, an error
Tagged(res) ==
    /\ "success" \in DOMAIN res
    /\ res.success \in BOOLEAN
    /\ (~res.success => "error" \in DOMAIN res)

\* C11: whatever the provider answers to the POST and to the GETs (any status,
\* missing fields, bodies that are no JSON or no JSON object, exceptions), an
\* operation never raises to its caller, and what it returns is a tagged result.
C11_AlwaysTagged ==
    /\ pc # "raised"
    /\ (pc = "returned" => Tagged(result))

C11_Witness ==
    /\ op = "generate_response_sync" /\ pc = "returned" /\ ppc = "raised"
    /\ gets = 2 /\ result = Failure(ErrUnexpected(op, "AttributeError"))

\* the call has ended in a failure: the operation returned one, or its polling
\* (of the async form too) is over
TerminalFailure ==
    \/ pc = "returned" /\ ~result.success
    \/ ppc = "raised"
    \/ ppc = "done" /\ ~poll_result.success

\* C12: an exception raised by the POST makes the operation return the failure
\* built from that exception without any GET; an operation issues at most one
\* POST, and once a call has ended in a failure it issues no HTTP request.
C12_NoRetry ==
    /\ [](posts <= 1)
    /\ [](sub.kind = "exception" =>
            /\ pc = "returned"
            /\ result = Failure(ErrUnexpected(op, sub.exc))
            /\ gets = 0 /\ ppc = "off" /\ cb_count = 0)
    /\ [][TerminalFailure => (posts' <= posts /\ gets' <= gets)]_vars

C12_Witness ==
    /\ sub.kind = "exception" /\ sub.exc = "ConnectionError"
    /\ op = "continue_conversation" /\ session_id = "s1"
    /\ pc = "returned" /\ posts = 1 /\ gets = 0

(***************************************************************************)
(* Properties of the chat views, continued (SpecChat)                      *)
(***************************************************************************)
\* the continue call of the turn has returned a failure
FailedContinue ==
    /\ req.view = "send_message" /\ req.rpc = "continue" /\ Returned
    /\ ~ContinueAnswer(result).success

\* the re-initialization for a missing token has brought no token: the turn
\* has no session to continue
FailedReinit ==
    /\ req.view = "send_message" /\ req.rpc = "reinit" /\ Returned
    /\ ~(ContinueAnswer(result).success /\ Truthy(result.session_id))

\* the error turn: one more message, the assistant's error text, and a 201
\* response that carries the agent_error flag and the error
ErrorTurn(details) ==
    /\ messages' = Append(messages, Message(req.conversation_id, "ai", ErrorText, FALSE))
    /\ req'.rpc = "done"
    /\ req'.response = [status |-> 201, agent_error |-> TRUE,
                        agent_error_details |-> details]

\* C13: when the agent call of a turn fails (submission error, missing request
\* id, timeout, empty response, exception, missing session), send_message
\* persists exactly one assistant message with the error text and answers 201
\* with the agent_error flag and the error details.
C13_AgentFailureTurn ==
    [][/\ FailedContinue => ErrorTurn(ContinueAnswer(result).error)
       /\ FailedReinit => ErrorTurn(ErrNoSession)]_vars

C13_Witness ==
    /\ req.view = "send_message" /\ req.rpc = "done" /\ req.continue_calls = 1
    /\ req.response = [status |-> 201, agent_error |-> TRUE,
                       agent_error_details |-> ErrTimeout]
    /\ messages[Len(messages)] = Message(req.conversation_id, "ai", ErrorText, FALSE)
    /\ messages[Len(messages) - 1].message_type = "user"

\* C14 (as claimed): when a continue call made with the stored token fails
\* because the provider rejects the submit, send_message re-initializes the
\* session (and then retries the turn once) instead of ending the turn.
C14_StaleTokenRetry ==
    [][(FailedContinue /\ SubmitRejected /\ req.continue_calls = 1) =>
            (req'.rpc = "reinit" /\ op' = "initialize_with_system_prompt")]_vars

\* the messages of a conversation, in order of creation
MessagesOf(c) == SelectSeq(messages, LAMBDA m : m.conversation = c)

\* the tokens the client sessions hold for a conversation
StoredTokens(c) == {session[cl].aixplain_session[c] : cl \in Clients} \ {NONE}

\* C15 (as claimed): once a remote session has been initialized for a
\* conversation and its token kept, the conversation record holds that token
\* in aixplain_session_id.
C15_TokenOnRecord ==
    \A c \in DOMAIN conversations :
        \A t \in StoredTokens(c) : conversations[c].aixplain_session_id = t

\* a message the agent produced: the greeting of initialize or a reply
FromAgent(m) == m.message_type = "ai" /\ m.content \notin {ErrorText, Fallback}

\* C16 (as claimed): a conversation that holds an assistant message produced by
\* a successful agent call has a stored continuity token.
C16_AgentMessageHasToken ==
    \A c \in DOMAIN conversations :
        (\E k \in 1..Len(messages) : messages[k].conversation = c /\ FromAgent(messages[k]))
            => StoredTokens(c) # {}

\* the token the requesting client's session holds for the request's conversation
TokenOfRequest == session[req.client].aixplain_session[req.conversation_id]

\* C17: listing the messages of a conversation that does not exist creates it
\* and calls initialize once; the conversation is left with exactly one
\* message, an assistant message: the agent's reply, with the returned token
\* stored, when initialize succeeded, else the fallback greeting and no token.
C17_LazyInit ==
    /\ [](req.view = "get_conversation_messages" /\ req.created =>
            /\ req.conversation_id \in DOMAIN conversations
            /\ req.init_calls = 1 /\ req.continue_calls = 0
            /\ (req.rpc = "init" => MessagesOf(req.conversation_id) = <<>>)
            /\ (req.rpc = "done" =>
                    /\ Len(MessagesOf(req.conversation_id)) = 1
                    /\ MessagesOf(req.conversation_id)[1].message_type = "ai"
                    /\ req.response.status = 200))
    /\ [][(req.view = "get_conversation_messages" /\ req.rpc = "init" /\ Returned) =>
            IF ContinueAnswer(result).success
            THEN /\ messages' = Append(messages,
                        Message(req.conversation_id, "ai", result.content.s, FALSE))
                 /\ TokenOfRequest' = result.session_id
            ELSE /\ messages' = Append(messages,
                        Message(req.conversation_id, "ai", Fallback, FALSE))
                 /\ TokenOfRequest' = NONE]_vars

C17_Witness ==
    /\ req.view = "get_conversation_messages" /\ req.created /\ req.rpc = "done"
    /\ requests = 2
    /\ MessagesOf("c1") = <<Message("c1", "ai", Fallback, FALSE)>>
    /\ StoredTokens("c1") = {}

\* C18 (as claimed): when send_message creates the conversation, the first
\* message of the conversation is an assistant greeting (the agent's opening
\* reply, or the fallback greeting when initialize failed), before the user's.
C18_GreetingFirst ==
    (req.view = "send_message" /\ req.created /\ MessagesOf(req.conversation_id) # <<>>) =>
        LET first == MessagesOf(req.conversation_id)[1]
        IN  first.message_type = "ai" /\ first.content # ErrorText

\* C19 (as claimed): a request whose conversation id is no well-formed UUID is
\* answered 400 by both views, and nothing is created and no agent call made.
C19_BadIdRejected ==
    (req.rpc # "idle" /\ req.conversation_id = BadId) =>
        /\ req.rpc = "done"
        /\ req.response.status = 400
        /\ req.init_calls = 0 /\ req.continue_calls = 0
        /\ BadId \notin DOMAIN conversations
        /\ MessagesOf(BadId) = <<>>
        /\ pc = "idle" /\ posts = 0 /\ gets = 0

\* C20 (as claimed): the continue request of a turn on an existing conversation
\* carries exactly the token that was stored for the conversation at the end
\* of the turn before.
C20_TokenCarried ==
    (/\ caller = "request" /\ op = "continue_conversation" /\ posts = 1
     /\ ~req.created) =>
        \A t \in StoredTokens(req.conversation_id) : post_body.sessionId = t

(***************************************************************************)
(* Further properties of the agent operations                              *)
(***************************************************************************)
\* C22 (as claimed): generate_response_async with a callback returns, after an
\* accepted submit, the request id and session id with status 'submitted'
\* before any GET is made, and once the background polling has ended the
\* callback has been invoked exactly once, with the outcome of the polling,
\* whatever the provider answered.
C22_CallbackOnce ==
    (op = "generate_response_async" /\ callback /\ SubmitAccepted) =>
        /\ pc = "returned"
        /\ result = [success |-> TRUE, request_id |-> sub.requestId,
                     session_id |-> IdOr(sub.sessionId, session_id),
                     status |-> "submitted"]
        /\ cb_count <= 1
        /\ (ppc \notin {"get", "sleep"} => cb_count = 1 /\ cb_result = poll_result)

\* a call, or the polling thread it started, still has steps to take
InCall == pc \in {"submit", "polling"} \/ ppc \in {"get", "sleep"}

\* C23: every call makes at most one POST and at most 24 GETs, sleeps at most
\* once after each GET, and ends: the operation returns a result dict and the
\* polling (of the operation, or of the thread of the async form) stops.
C23_Terminates ==
    /\ [](posts <= 1 /\ gets <= 24 /\ sleeps <= gets)
    /\ [](pc = "returned" => "success" \in DOMAIN result)
    /\ (InCall ~> ~InCall)

C23_Witness ==
    /\ op = "continue_conversation" /\ pc = "returned" /\ ppc = "done"
    /\ posts = 1 /\ gets = 24 /\ sleeps = 24
    /\ result = [success |-> FALSE, error |-> [msg |-> "Agent response timeout"]]

\* the order in which the specification looks inside a structured candidate
NestedKeys == <<"output", "response", "message", "content", "text">>

NestedPopulated(c) == {i \in 1..Len(NestedKeys) : Populated(Field(c, NestedKeys[i]))}

\* C24 (as claimed): when the first populated candidate is an object, the
\* result is the first non-empty of its output, response, message, content and
\* text (trimmed), and the rendering of the whole object only when none of the
\* five is populated.
C24_NestedOrder ==
    (ex_out # NoResult /\ PopulatedIndexes(ex_in) # {}) =>
        LET v == Lookup(ex_in, CandidatePaths[FirstPopulated(ex_in)])
        IN  v.t = "obj" =>
                IF NestedPopulated(v) # {}
                THEN LET i == CHOOSE i \in NestedPopulated(v) :
                                  \A j \in NestedPopulated(v) : i <= j
                         w == Field(v, NestedKeys[i])
                     IN  w.t = "str" => ex_out = JStr(Strip(w.s))
                ELSE ex_out = JStr(Strip(PyStrOf(v).s))

\* a text that is not empty and neither starts nor ends with whitespace
Trimmed(v) ==
    /\ v.t = "str" /\ v.s # <<>>
    /\ ~IsSpace(Head(v.s)) /\ ~IsSpace(v.s[Len(v.s)])

\* a result that reports success and carries reply text
HasReply(res) == "content" \in DOMAIN res /\ res.success

C26_InitializeSubmitsPrompt ==
    (op = "initialize_with_system_prompt" /\ posts = 1) =>
        /\ post_body.query = SystemPrompt
        /\ (~Truthy(session_id) => post_body.sessionId = ABSENT)
        /\ (pc = "returned" /\ result.success) =>
                /\ result.content = ReplyText
                /\ (Truthy(sub.sessionId) => result.session_id = sub.sessionId)

(***************************************************************************)
(* Further properties of the chat views (SpecChat)                         *)
(***************************************************************************)
\* the request at hand is a send_message that passed validation and is answered
TurnAnswered ==
    /\ req.view = "send_message" /\ req.rpc = "done"
    /\ req.response.status \notin {400, 404}

\* C27: a send_message that passes validation has, when it is answered,
\* created exactly one user message (the content and image sent) and after it
\* exactly one assistant message (the reply or the error text); both are in the
\* store in that order and the response returns both.  The greeting of a
\* conversation the request itself created comes before the user message.
C27_OneUserOneAssistant ==
    TurnAnswered =>
        LET n == Len(req.rows)
            u == req.rows[n - 1]
            a == req.rows[n]
        IN  /\ n \in {2, 3}
            /\ req.response.status = 201
            /\ u = [conversation |-> req.conversation_id, message_type |-> "user",
                    content |-> req.content, image |-> req.image]
            /\ a.conversation = req.conversation_id /\ a.message_type = "ai"
            /\ (n = 3 => req.created /\ req.rows[1].message_type = "ai")
            /\ Len(messages) >= n
            /\ SubSeq(messages, Len(messages) - n + 1, Len(messages)) = req.rows
            /\ req.data = [user_message |-> u, ai_message |-> a]

C27_Witness ==
    /\ TurnAnswered /\ Len(req.rows) = 3 /\ req.response.agent_error
    /\ req.rows[3].content = <<"Something went wrong. Please try again.">>

\* the token the client of the request has stored for its conversation
StoredToken == session[req.client].aixplain_session[req.conversation_id]

\* the step in which send_message goes on after its re-initialization
ReinitReturns == req.view = "send_message" /\ req.rpc = "reinit" /\ req'.rpc # "reinit"

\* C29: a send_message that finds no stored token calls initialize once; when
\* that returns a token, the token is stored and the pending message is sent
\* through continue with it in the same request; the text of the
\* re-initialization's reply is not persisted.
C29_ReinitThenContinue ==
    /\ [](req.rpc = "reinit" =>
            /\ req.init_calls = (IF req.created THEN 2 ELSE 1)
            /\ ~Truthy(StoredToken))
    /\ [][ReinitReturns =>
            /\ req'.init_calls = req.init_calls
            /\ \A i \in 1..Len(messages') :
                    i <= Len(messages) \/ messages'[i].content = ErrorText
            /\ ("success" \in DOMAIN result /\ result.success
                /\ Truthy(result.session_id)) =>
                    /\ StoredToken' = result.session_id
                    /\ messages' = messages
                    /\ req'.rpc = "continue" /\ req'.continue_calls = 1
                    /\ op' = "continue_conversation"
                    /\ session_id' = result.session_id
                    /\ post_body'.query =
                            (IF req.image
                             THEN req.content \o <<" [I've uploaded an image]">>
                             ELSE req.content)
                    /\ requests' = requests]_vars

C29_Witness ==
    /\ req.view = "send_message" /\ req.rpc = "continue" /\ ~req.created
    /\ req.init_calls = 1 /\ StoredToken = "s2" /\ session_id = "s2"
    /\ op = "continue_conversation" /\ posts = 1 /\ post_body.sessionId = "s2"
    /\ messages[Len(messages)].message_type = "user"

\* C30: a send_message whose content is empty or whitespace only and that
\* carries no image is answered 400 and does nothing else: no conversation or
\* message is created, no stored token changes and no agent call is made.
C30_EmptyRejected ==
    [][(requests' = requests + 1 /\ req'.view = "send_message"
        /\ req'.conversation_id \in ConvIds
        /\ req'.content = <<>> /\ ~req'.image) =>
            /\ req'.rpc = "done" /\ req'.response.status = 400
            /\ UNCHANGED <<conversations, messages, session>>
            /\ req'.rows = <<>>
            /\ pc' = "idle" /\ posts' = 0]_vars

C30_Witness ==
    /\ req.view = "send_message" /\ req.rpc = "done" /\ req.response.status = 400
    /\ req.conversation_id \in ConvIds /\ req.content = <<>> /\ ~req.image
    /\ requests = 2 /\ messages # <<>>

(***************************************************************************)
(* Properties of the server handling requests concurrently (SpecServer)    *)
(***************************************************************************)
\* both workers have answered a send_message of client cl on conversation id,
\* and the two requests were in flight at the same time
BothFinished(cl, id) ==
    \A w \in Workers :
        /\ workers[w].req.rpc = "done" /\ workers[w].req.view = "send_message"
        /\ workers[w].req.client = cl /\ workers[w].req.conversation_id = id
        /\ workers[w].overlap

\* C21 (as claimed): when two turns on the same conversation were in flight at
\* the same time and both have finished, the stored token is the session id of
\* the most recent successful agent call made for the conversation.
C21_LastWriterWins ==
    \A cl \in ServerClients, id \in ConvIds :
        (BothFinished(cl, id) /\ Truthy(last_token[cl][id])) =>
            session[cl].aixplain_session[id] = last_token[cl][id]

\* the messages of the conversations a step leaves in the store
Kept == SelectSeq(messages, LAMBDA m : m.conversation \in DOMAIN conversations')

\* C28: every step leaves the messages there are as they are, in their order,
\* and at most adds new ones after them, except that a step that deletes a
\* conversation removes exactly the messages of that conversation; no message
\* is without its conversation.
C28_MessagesImmutable ==
    /\ [](\A i \in 1..Len(messages) : messages[i].conversation \in DOMAIN conversations)
    /\ [][/\ Len(messages') >= Len(Kept)
          /\ SubSeq(messages', 1, Len(Kept)) = Kept
          /\ (DOMAIN conversations' = DOMAIN conversations => Kept = messages)
          /\ (DOMAIN conversations \ DOMAIN conversations' # {} => messages' = Kept)]_vars

C28_Witness ==
    /\ DOMAIN conversations = {"c2"}
    /\ workers["w1"].req.conversation_id = "c1" /\ Len(workers["w1"].req.rows) = 3
    /\ workers["w2"].req.conversation_id = "c2" /\ workers["w2"].req.rpc = "done"
    /\ messages = workers["w2"].req.rows /\ messages # <<>>
\* ---- C31 ----

\* worker w takes, in this step, a listing of a conversation that exists
ListsExisting(w) ==
    /\ requests' = requests + 1
    /\ ~InFlight(w)
    /\ workers'[w] # workers[w]
    /\ workers'[w].req.view = "get_conversation_messages"
    /\ workers'[w].req.conversation_id \in DOMAIN conversations

\* C31: listing the messages of a conversation that already exists answers at
\* once with status 200, calls no agent operation, creates no message and
\* leaves the conversations and every stored token as they were, even when
\* the conversation has no messages; a listing waits for initialize only in
\* the request that created the conversation.
C31_ListExistingIsReadOnly ==
    /\ [][\A w \in Workers :
            ListsExisting(w) =>
                /\ workers'[w].req.rpc = "done"
                /\ workers'[w].req.response.status = 200
                /\ workers'[w].req.init_calls = 0
                /\ workers'[w].req.continue_calls = 0
                /\ workers'[w].req.rows = <<>>
                /\ ~workers'[w].req.session_modified
                /\ UNCHANGED <<conversations, messages, session, last_token>>]_vars
    /\ [](\A w \in Workers :
            (workers[w].req.view = "get_conversation_messages" /\ InFlight(w))
                => (workers[w].req.created /\ workers[w].req.rpc = "init"))

\* a listing of a conversation that exists and has no messages was answered
C31_Witness ==
    \E w \in Workers :
        /\ workers[w].req.view = "get_conversation_messages"
        /\ workers[w].req.rpc = "done"
        /\ ~workers[w].req.created
        /\ workers[w].req.response.status = 200
        /\ workers[w].req.init_calls = 0
        /\ workers[w].req.conversation_id \in DOMAIN conversations
        /\ MessagesOf(workers[w].req.conversation_id) = <<>>
        /\ session[workers[w].req.client].aixplain_session[workers[w].req.conversation_id] = NONE
\* ---- C32 ----

\* C32 (as claimed): for one conversation a remote session is initialized at
\* most once, over all requests, overlapping ones included.
C32_InitializedOnce == \A c \in ConvIds : init_count[c] <= 1
\* ---- C33 ----

\* worker w takes, in this step, a send_message of a client whose session
\* holds a token for the conversation, while no other request is being handled
SendsWithToken(w) ==
    /\ requests' = requests + 1
    /\ \A u \in Workers : ~InFlight(u)
    /\ workers'[w] # workers[w]
    /\ workers'[w].req.view = "send_message"
    /\ Truthy(session[workers'[w].req.client].aixplain_session[
                                        workers'[w].req.conversation_id])

\* the request worker w has taken makes one call, a continue with the stored
\* token, and no initialize
ContinuesOnly(w) ==
    /\ workers'[w].req.rpc = "continue"
    /\ workers'[w].req.init_calls = 0
    /\ workers'[w].req.continue_calls = 1
    /\ workers'[w].req.aixplain_session_id =
            session[workers'[w].req.client].aixplain_session[
                                        workers'[w].req.conversation_id]

\* the request of worker w is answered when its continue call returns, with
\* no further agent call
ContinueIsLast(w) ==
    (workers[w].req.rpc = "continue" /\ workers'[w].req # workers[w].req) =>
        /\ workers'[w].req.rpc = "done"
        /\ workers'[w].req.init_calls = workers[w].req.init_calls
        /\ workers'[w].req.continue_calls = workers[w].req.continue_calls

\* C33 (as claimed): once a token is stored for a conversation in a client
\* session, every later sequential send_message of that client makes exactly
\* one agent call, a continue carrying the stored token, and no initialize.
C33_EverySendContinues ==
    [][\A w \in Workers :
            /\ SendsWithToken(w) => ContinuesOnly(w)
            /\ ContinueIsLast(w)]_vars

\* C33 (amended): the same for every such send_message that passes validation
\* (a content that is not blank) and finds the conversation still existing.
C33_ValidSendContinues ==
    [][\A w \in Workers :
            /\ ( /\ SendsWithToken(w)
                 /\ workers'[w].req.content # <<>> \/ workers'[w].req.image
                 /\ workers'[w].req.conversation_id \in DOMAIN conversations )
                    => ContinuesOnly(w)
            /\ ContinueIsLast(w)]_vars

\* a send_message that found the token of an earlier request was answered
\* after its one continue call
C33_Witness ==
    \E w \in Workers :
        /\ workers[w].req.view = "send_message"
        /\ workers[w].req.rpc = "done"
        /\ ~workers[w].req.created
        /\ workers[w].req.init_calls = 0
        /\ workers[w].req.continue_calls = 1
        /\ Truthy(workers[w].req.aixplain_session_id)
        /\ workers[w].req.response.status = 201
        /\ Len(workers[w].req.rows) = 2
\* ---- C34 ----

\* C34: a send_message makes at most two initialize calls (the second only in
\* a request that created the conversation) and at most one continue call;
\* when the request created the conversation and neither the initialization
\* at creation nor the re-initialization for the missing token succeeded, no
\* continue is submitted and the turn ends with the error message.
C34_BoundedAgentCalls ==
    /\ [](req.view = "send_message" =>
            /\ req.init_calls <= 2 /\ req.continue_calls <= 1
            /\ (req.init_calls = 2 => req.created)
            /\ (req.rpc = "continue" => req.continue_calls = 1))
    /\ [][(ReinitReturns /\ req.created /\ Len(req.rows) = 1
           /\ ~("success" \in DOMAIN result /\ result.success)) =>
            /\ req'.rpc = "done"
            /\ req'.init_calls = 2 /\ req'.continue_calls = 0
            /\ pc' = "idle" /\ op' = "none"
            /\ req'.response = [status |-> 201, agent_error |-> TRUE,
                                agent_error_details |-> ErrNoSession]
            /\ messages' = Append(messages, Message(req.conversation_id, "ai",
                                                    ErrorText, FALSE))
            /\ StoredToken' = NONE
            /\ requests' = requests]_vars

\* a send_message that created its conversation was answered with the error
\* message after two failed initialize calls and no continue
C34_Witness ==
    /\ req.view = "send_message" /\ req.rpc = "done" /\ req.created
    /\ req.init_calls = 2 /\ req.continue_calls = 0
    /\ req.response.agent_error
    /\ Len(req.rows) = 2 /\ req.rows[1].message_type = "user"
    /\ req.rows[2].content = ErrorText
    /\ StoredToken = NONE
\* ---- C35 ----

\* the step in which send_message goes on after its continue call
ContinueReturns ==
    req.view = "send_message" /\ req.rpc = "continue" /\ Returned /\ req'.rpc = "done"

\* C35: a continue call that failed leaves every stored token as it was; the
\* token of the conversation is written after a continue only when the call
\* succeeded and returned a session id that is not empty, and then it is that
\* session id.
C35_FailedContinueKeepsToken ==
    [][ContinueReturns =>
        LET res == ContinueAnswer(result)
        IN  /\ ~res.success => session' = session
            /\ session' # session =>
                    /\ res.success /\ Truthy(res.session_id)
                    /\ session' = [session EXCEPT
                            ![req.client].aixplain_session[req.conversation_id] =
                                    res.session_id]]_vars

\* a turn whose continue call failed was answered, and the token the
\* conversation had is still stored
C35_Witness ==
    /\ req.view = "send_message" /\ req.rpc = "done" /\ req.continue_calls = 1
    /\ req.response.agent_error
    /\ req.aixplain_session_id = "s1" /\ StoredToken = "s1"
\* ---- C36 ----

\* C36: with the API key or the agent id not configured, every operation
\* returns at once the failure 'AIxplain API key or Agent ID not configured':
\* no POST and no GET is made, no polling starts (in the async form no thread
\* is started) and no callback is invoked.
C36_NotConfiguredNoRequest ==
    (~configured /\ op # "none") =>
        /\ pc = "returned"
        /\ result = [success |-> FALSE,
                     error |-> [msg |-> "AIxplain API key or Agent ID not configured"]]
        /\ posts = 0 /\ sub = NoResponse /\ request_id = NONE
        /\ gets = 0 /\ sleeps = 0 /\ attempt = 0
        /\ ppc = "off"
        /\ cb_count = 0

\* the async form was called with a callback while nothing is configured
C36_Witness ==
    /\ ~configured /\ op = "generate_response_async" /\ callback
    /\ pc = "returned" /\ ~result.success /\ posts = 0 /\ ppc = "off"
\* ---- C37 ----

\* C37: when the submit of generate_response_async fails (a status outside
\* {200, 201}, no request id, or an exception), the failure is returned to the
\* caller, no polling starts and the callback is not invoked; polling and the
\* callback happen only for a call with a callback whose submit was accepted.
C37_AsyncSubmitFailure ==
    /\ (op = "generate_response_async" /\ sub # NoResponse /\ ~SubmitAccepted) =>
            /\ pc = "returned"
            /\ result = Failure(
                    IF sub.kind = "exception"
                        THEN ErrUnexpected(op, sub.exc)
                    ELSE IF sub.status \notin {200, 201}
                        THEN ErrSubmit(sub.status, sub.json)
                    ELSE IF sub.json = "malformed"
                        THEN ErrUnexpected(op, "JSONDecodeError")
                    ELSE IF sub.json = "array"
                        THEN ErrUnexpected(op, "AttributeError")
                    ELSE ErrNoRequestId)
            /\ ppc = "off" /\ gets = 0 /\ sleeps = 0
            /\ cb_count = 0 /\ cb_result = NoResult
    /\ (op = "generate_response_async" /\ (ppc # "off" \/ cb_count > 0)) =>
            (SubmitAccepted /\ callback)

\* an async call with a callback whose submit raised has returned the failure
C37_Witness ==
    /\ op = "generate_response_async" /\ callback
    /\ sub.kind = "exception" /\ pc = "returned" /\ ~result.success
    /\ ppc = "off" /\ cb_count = 0
\* ---- C38 ----

\* C38: for the same arguments and the same answers of the provider, the
\* result generate_response_async passes to its callback is the result
\* generate_response_sync returned: the same success flag, content, session id
\* and request id, or the same error.
C38_CallbackGetsSyncResult ==
    (op = "generate_response_async" /\ cb_count > 0) => cb_result = sync_result

\* the callback was given a success that carries the session id of the submit
\* response, as the sync call had returned it
C38_Witness ==
    /\ op = "generate_response_async" /\ cb_count = 1
    /\ cb_result.success /\ cb_result.session_id = "s1" /\ script.sid = "s2"
    /\ cb_result.content = JStr(<<"padded">>)
    /\ sync_result = cb_result
    /\ Len(script.polls) = 2 /\ gets = 2

====
